---- MODULE Spec2Model ----
(***************************************************************************)
(* TSPSolver of src/src/tsp-solver.ts as a state machine.                  *)
(*                                                                         *)
(* Arrays are 0-based functions (cities, distanceMatrix, dp, parent);      *)
(* routes are sequences of 0-based city indices, so the code's route[p]    *)
(* is route[p + 1] here.  Coordinates are points of a small integer        *)
(* lattice and Math.sqrt is taken in fixed point (Scale units per unit     *)
(* length, rounded down), so every distance is a finite natural number     *)
(* and sums are exact.  The number Infinity stands for the IEEE value.     *)
(***************************************************************************)
EXTENDS Integers, Sequences, FiniteSets, TLC

\* ------------------------------------------------------------------ bounds
LatticeW == 4
LatticeH == 3
MaxN == 12
MaxExactN == 6
MaxStride == 2
MaxPermN == 5
MaxRouteLen == 3
MaxDPN == 17
MaxToolCities == 3
MaxToolRoute == 2
MaxFairLists == 1
Scale == 100

\* ------------------------------------------------------- program constants
ExactThreshold == 10
CapacityCeiling == 15
MaxStarts == 5
Infinity == 1000000000

\* ----------------------------------------------------------------- inputs
NumPoints == LatticeW * LatticeH

Point(q) == [x |-> q % LatticeW, y |-> q \div LatticeW]

FromSeq(s) == [k \in 0..(Len(s) - 1) |-> s[k + 1]]

\* n lattice points, listed from point off in steps of stride.
Walk(n, off, stride) == [k \in 0..(n - 1) |-> Point((off + k * stride) % NumPoints)]

Collinear3 == FromSeq(<<[x |-> 0, y |-> 0], [x |-> 1, y |-> 0], [x |-> 2, y |-> 0]>>)

UnitSquare ==
    FromSeq(<<[x |-> 0, y |-> 0], [x |-> 1, y |-> 0], [x |-> 1, y |-> 1], [x |-> 0, y |-> 1]>>)

\* The city counts of the model: the trivial and exact regimes up to
\* MaxExactN cities, the heuristic regime from ExactThreshold + 1 to MaxN.
Sizes == {n \in 0..MaxN : n <= MaxExactN \/ n > ExactThreshold}

CityLists ==
    {Walk(n, off, 2 * s - 1) : n \in Sizes, off \in 0..(NumPoints - 1), s \in 1..MaxStride}
        \cup {Collinear3, UnitSquare}

\* ------------------------------------------------------------- arithmetic
Pow2(k) == 2 ^ k

\* Math.sqrt in fixed point: the largest r with r * r <= Scale^2 * k.
Sqrt(k) ==
    LET t == Scale * Scale * k
    IN  CHOOSE r \in 0..(Scale * k + Scale) : r * r <= t /\ t < (r + 1) * (r + 1)

\* IEEE addition on non-negative values: Infinity absorbs.
Plus(a, b) == IF a = Infinity \/ b = Infinity THEN Infinity ELSE a + b

\* --------------------------------------------------------------- TSPSolver
\* constructor: each city gets id = its index.
WithIds(cs) == [k \in DOMAIN cs |-> [x |-> cs[k].x, y |-> cs[k].y, id |-> k]]

\* Mutant: only the entries above the diagonal are computed.
calculateDistanceMatrixUpper(cs) ==
    [a \in DOMAIN cs |->
        [b \in DOMAIN cs |->
            IF a < b
            THEN LET dx == cs[a].x - cs[b].x
                     dy == cs[a].y - cs[b].y
                 IN  Sqrt(dx * dx + dy * dy)
            ELSE 0]]

calculateDistanceMatrix(cs) ==
    [a \in DOMAIN cs |->
        [b \in DOMAIN cs |->
            IF a # b
            THEN LET dx == cs[a].x - cs[b].x
                     dy == cs[a].y - cs[b].y
                 IN  Sqrt(dx * dx + dy * dy)
            ELSE 0]]

NumCities(m) == Cardinality(DOMAIN m)

\* The loop of calculateRouteDistance from position p (0-based) on.
RECURSIVE RouteDistanceFrom(_, _, _, _)
RouteDistanceFrom(m, route, p, totalDistance) ==
    IF p >= Len(route)
    THEN totalDistance
    ELSE LET from == route[p + 1]
             to == route[((p + 1) % Len(route)) + 1]
         IN  RouteDistanceFrom(m, route, p + 1, Plus(totalDistance, m[from][to]))

\* Mutant: the closing edge from the last entry to the first is left out.
calculateRouteDistanceOpen(m, route) ==
    IF Len(route) = 0
    THEN 0
    ELSE RouteDistanceFrom(m, route, 0, 0) - m[route[Len(route)]][route[1]]

calculateRouteDistance(m, route) == RouteDistanceFrom(m, route, 0, 0)

\* distanceMatrix[from] is undefined for a from outside the matrix, and
\* reading a property of undefined throws a TypeError.
calculateRouteDistanceThrows(m, route) == \E p \in 1..Len(route) : route[p] \notin DOMAIN m

\* Mutant: the scan keeps the last of the cities at the same distance.
RECURSIVE NearestScanLastOnTie(_, _, _, _, _, _)
NearestScanLastOnTie(m, n, visited, currentCity, i, best) ==
    IF i >= n
    THEN best
    ELSE IF i \notin visited /\ m[currentCity][i] <= best.nearestDistance
         THEN NearestScanLastOnTie(m, n, visited, currentCity, i + 1,
                                   [nearestCity |-> i, nearestDistance |-> m[currentCity][i]])
         ELSE NearestScanLastOnTie(m, n, visited, currentCity, i + 1, best)

\* Nearest Neighbor: the scan for (let i = 0; i < n; i++) from i on; best
\* holds nearestCity and nearestDistance.
RECURSIVE NearestScan(_, _, _, _, _, _)
NearestScan(m, n, visited, currentCity, i, best) ==
    IF i >= n
    THEN best
    ELSE IF i \notin visited /\ m[currentCity][i] < best.nearestDistance
         THEN NearestScan(m, n, visited, currentCity, i + 1,
                          [nearestCity |-> i, nearestDistance |-> m[currentCity][i]])
         ELSE NearestScan(m, n, visited, currentCity, i + 1, best)

\* while (route.length < n) { scan; push; add; move }
RECURSIVE NearestLoop(_, _, _, _, _)
NearestLoop(m, n, route, visited, currentCity) ==
    IF Len(route) >= n
    THEN route
    ELSE LET nearestCity ==
                 NearestScan(m, n, visited, currentCity, 0,
                             [nearestCity |-> -1, nearestDistance |-> Infinity]).nearestCity
         IN  NearestLoop(m, n, Append(route, nearestCity), visited \cup {nearestCity},
                         nearestCity)

\* Mutant: the loop runs once more.
NearestContinuesInclusive(route, k) == Len(route) <= k

\* while (route.length < n)
NearestContinues(route, k) == Len(route) < k

\* Mutant: the start city is not added to visited.
nearestNeighborStartUnvisited(m, startCity) ==
    NearestLoop(m, NumCities(m), <<startCity>>, {}, startCity)

nearestNeighbor(m, startCity) ==
    NearestLoop(m, NumCities(m), <<startCity>>, {startCity}, startCity)

\* Mutant: the section is reversed from position 0 on.
reverseSectionFromZero(route, start, end) ==
    [p \in 1..Len(route) |-> IF p <= end + 1 THEN route[end + 2 - p] ELSE route[p]]

\* reverseSection on 0-based positions start..end: swap the ends, move inward.
RECURSIVE reverseSection(_, _, _)
reverseSection(route, start, end) ==
    IF start < end
    THEN reverseSection([route EXCEPT ![start + 1] = route[end + 1],
                                      ![end + 1] = route[start + 1]],
                        start + 1, end - 1)
    ELSE route

\* Mutant: the comparison is the wrong way round.
TwoOptCandidateWorse(m, s, i, j) ==
    IF j - i = 1
    THEN s
    ELSE LET newRoute == reverseSection(s.bestRoute, i, j)
             newDistance == calculateRouteDistance(m, newRoute)
         IN  IF newDistance > s.bestDistance
             THEN [bestRoute |-> newRoute, bestDistance |-> newDistance, improved |-> TRUE]
             ELSE s

\* Mutant: a candidate of the same distance is accepted.
TwoOptCandidateOnTie(m, s, i, j) ==
    IF j - i = 1
    THEN s
    ELSE LET newRoute == reverseSection(s.bestRoute, i, j)
             newDistance == calculateRouteDistance(m, newRoute)
         IN  IF newDistance <= s.bestDistance
             THEN [bestRoute |-> newRoute, bestDistance |-> newDistance, improved |-> TRUE]
             ELSE s

\* Mutant: an accepted move does not ask for another pass.
TwoOptCandidateOnePass(m, s, i, j) ==
    IF j - i = 1
    THEN s
    ELSE LET newRoute == reverseSection(s.bestRoute, i, j)
             newDistance == calculateRouteDistance(m, newRoute)
         IN  IF newDistance < s.bestDistance
             THEN [bestRoute |-> newRoute, bestDistance |-> newDistance,
                   improved |-> s.improved]
             ELSE s

\* 2-opt: the body of the inner loop for one pair (i, j); s holds bestRoute,
\* bestDistance and improved.
TwoOptCandidate(m, s, i, j) ==
    IF j - i = 1
    THEN s
    ELSE LET newRoute == reverseSection(s.bestRoute, i, j)
             newDistance == calculateRouteDistance(m, newRoute)
         IN  IF newDistance < s.bestDistance
             THEN [bestRoute |-> newRoute, bestDistance |-> newDistance, improved |-> TRUE]
             ELSE s

\* for (let j = ...; j < n; j++), n = route.length = bestRoute.length
RECURSIVE TwoOptInner(_, _, _, _)
TwoOptInner(m, s, i, j) ==
    IF j >= Len(s.bestRoute)
    THEN s
    ELSE TwoOptInner(m, TwoOptCandidate(m, s, i, j), i, j + 1)

\* for (let i = ...; i < n - 2; i++)
RECURSIVE TwoOptOuter(_, _, _)
TwoOptOuter(m, s, i) ==
    IF i >= Len(s.bestRoute) - 2
    THEN s
    ELSE TwoOptOuter(m, TwoOptInner(m, s, i, i + 1), i + 1)

\* while (improved) { improved = false; one pass }
RECURSIVE TwoOptWhile(_, _)
TwoOptWhile(m, s) ==
    IF ~s.improved
    THEN s.bestRoute
    ELSE TwoOptWhile(m, TwoOptOuter(m, [s EXCEPT !.improved = FALSE], 1))

TwoOptStart(m, route) ==
    [bestRoute |-> route, bestDistance |-> calculateRouteDistance(m, route), improved |-> TRUE]

twoOptImprovement(m, route) == TwoOptWhile(m, TwoOptStart(m, route))

\* Held-Karp.  mask & (1 << u)
InMask(mask, u) == (mask \div Pow2(u)) % 2 = 1

\* T holds the tables dp and parent.  for (let v = ...; v < n; v++)
RECURSIVE DPRelax(_, _, _, _, _, _)
DPRelax(m, n, T, mask, u, v) ==
    IF v >= n
    THEN T
    ELSE IF InMask(mask, v)
         THEN DPRelax(m, n, T, mask, u, v + 1)
         ELSE LET newMask == mask + Pow2(v)
                  newDist == Plus(T.dp[mask][u], m[u][v])
              IN  IF newDist < T.dp[newMask][v]
                  THEN DPRelax(m, n,
                               [dp |-> [T.dp EXCEPT ![newMask][v] = newDist],
                                parent |-> [T.parent EXCEPT ![newMask][v] = u]],
                               mask, u, v + 1)
                  ELSE DPRelax(m, n, T, mask, u, v + 1)

\* for (let u = ...; u < n; u++)
RECURSIVE DPLast(_, _, _, _, _)
DPLast(m, n, T, mask, u) ==
    IF u >= n
    THEN T
    ELSE IF ~InMask(mask, u) \/ T.dp[mask][u] = Infinity
         THEN DPLast(m, n, T, mask, u + 1)
         ELSE DPLast(m, n, DPRelax(m, n, T, mask, u, 0), mask, u + 1)

\* Mutant: the base case is written to the row of the empty mask.
DPInitEmptyMask(n) ==
    [dp |-> [mask \in 0..(Pow2(n) - 1) |->
                [v \in 0..(n - 1) |-> IF mask = 0 /\ v = 0 THEN 0 ELSE Infinity]],
     parent |-> [mask \in 0..(Pow2(n) - 1) |-> [v \in 0..(n - 1) |-> -1]]]

\* The tables as allocated, with the base case dp[1][0] = 0 (n >= 1).
DPInit(n) ==
    [dp |-> [mask \in 0..(Pow2(n) - 1) |->
                [v \in 0..(n - 1) |-> IF mask = 1 /\ v = 0 THEN 0 ELSE Infinity]],
     parent |-> [mask \in 0..(Pow2(n) - 1) |-> [v \in 0..(n - 1) |-> -1]]]

\* for (let mask = ...; mask < (1 << n); mask++): st holds the tables and
\* the loop variable; the iterations from st.mask to hi, in increasing order
\* (the range is split in two so that the evaluation stays shallow).
RECURSIVE DPFill(_, _, _, _)
DPFill(m, n, st, hi) ==
    IF st.mask > hi
    THEN st
    ELSE IF st.mask = hi
         THEN [T |-> DPLast(m, n, st.T, st.mask, 0), mask |-> st.mask + 1]
         ELSE DPFill(m, n, DPFill(m, n, st, (st.mask + hi) \div 2), hi)

DPTables(m, n) == DPFill(m, n, [T |-> DPInit(n), mask |-> 1], Pow2(n) - 1).T

\* Mutant: the closing edge back to city 0 is left out of the cost.
RECURSIVE DPCloseNoReturnEdge(_, _, _, _, _)
DPCloseNoReturnEdge(m, k, T, c, best) ==
    IF c >= k
    THEN best
    ELSE LET cost == T.dp[Pow2(k) - 1][c]
         IN  IF cost < best.minCost
             THEN DPCloseNoReturnEdge(m, k, T, c + 1, [minCost |-> cost, lastCity |-> c])
             ELSE DPCloseNoReturnEdge(m, k, T, c + 1, best)

\* for (let i = ...; i < n; i++): the arg-min last city; best holds minCost
\* and lastCity.
RECURSIVE DPClose(_, _, _, _, _)
DPClose(m, n, T, i, best) ==
    IF i >= n
    THEN best
    ELSE LET cost == Plus(T.dp[Pow2(n) - 1][i], m[i][0])
         IN  IF cost < best.minCost
             THEN DPClose(m, n, T, i + 1, [minCost |-> cost, lastCity |-> i])
             ELSE DPClose(m, n, T, i + 1, best)

\* mask ^= (1 << curr)
XorBit(mask, curr) == IF InMask(mask, curr) THEN mask - Pow2(curr) ELSE mask + Pow2(curr)

\* while (curr !== -1) { push; prev; mask; curr }
RECURSIVE DPWalk(_, _, _, _)
DPWalk(T, route, mask, curr) ==
    IF curr = -1
    THEN route
    ELSE DPWalk(T, Append(route, curr), XorBit(mask, curr), T.parent[mask][curr])

\* Mutant: the walked route is returned as walked, last city first.
ReverseSkipped(route) == route

\* route.reverse()
Reverse(route) == [p \in 1..Len(route) |-> route[Len(route) + 1 - p]]

\* Mutant: the ceiling itself is refused.
dynamicProgrammingOverCapacityInclusive(n) == n >= CapacityCeiling

\* Mutant: the ceiling lies below the threshold of the exact branch.
dynamicProgrammingOverCapacityLow(n) == n > ExactThreshold \div 2

\* if (n > 15) throw new Error('Too many cities for dynamic programming approach')
dynamicProgrammingOverCapacity(n) == n > CapacityCeiling

\* n > 15 throws the capacity error; for n = 0 the tables have the single
\* row 0 and dp[1][0] = 0 writes through undefined: a TypeError.
dynamicProgrammingThrows(n) == dynamicProgrammingOverCapacity(n) \/ n = 0

dynamicProgramming(m) ==
    LET n == NumCities(m)
        T == DPTables(m, n)
        best == DPClose(m, n, T, 1, [minCost |-> Infinity, lastCity |-> -1])
    IN  Reverse(DPWalk(T, <<>>, Pow2(n) - 1, best.lastCity))

\* ------------------------------------------------------------------ solve
\* Mutant: the bound of the trivial case is off by one.
IsTrivialOffByOne(n) == n < 1

\* Mutant: the comparison of the trivial case is the wrong way round.
IsTrivialFlipped(n) == n > 2

IsTrivial(n) == n < 2

UsesExact(n) == n <= ExactThreshold

NumStarts(n) == IF n < MaxStarts THEN n ELSE MaxStarts

\* Mutant: a trial that ties with the best so far replaces it.
KeepsBestOnTie(d, best) == d <= best

\* Mutant: the comparison is the wrong way round.
KeepsBestFlipped(d, best) == d > best

\* if (distance < bestDistance)
KeepsBest(d, best) == d < best

\* try { dynamicProgramming } catch { nearestNeighbor(); twoOptImprovement }
\* with what was called, and whether an error leaves solve.
ExactBranch(m) ==
    IF ~dynamicProgrammingThrows(NumCities(m))
    THEN [thrown |-> FALSE, bestRoute |-> dynamicProgramming(m),
          calls |-> <<<<"dynamicProgramming", 0>>>>]
    ELSE LET r0 == nearestNeighbor(m, 0)
             log == <<<<"dynamicProgramming", 0>>, <<"catch", 0>>, <<"nearestNeighbor", 0>>,
                      <<"twoOptImprovement", 0>>>>
         IN  IF calculateRouteDistanceThrows(m, r0)
             THEN [thrown |-> TRUE, bestRoute |-> <<>>, calls |-> log]
             ELSE [thrown |-> FALSE, bestRoute |-> twoOptImprovement(m, r0), calls |-> log]

\* ----------------------------------------------------------------- arrays
\* The arrays a call of twoOptImprovement can reach: address 0 is the
\* array passed as route, 1 and 2 are arrays the method allocates (the
\* one bestRoute refers to and the one newRoute refers to).
NoArrays == [a \in 1..2 |-> <<>>]

Heap(r, allocated) == [a \in 0..2 |-> IF a = 0 THEN r ELSE allocated[a]]

\* An address of the method's that bestRoute does not refer to.
FreeAddress(ref) == IF ref = 1 THEN 2 ELSE 1

\* Mutant: no copy is made, the new name refers to the array itself.
SpreadAliased(h, ref, at) == [heap |-> h, ref |-> ref]

\* [...x]: a new array at address at, with the elements of the array at ref.
Spread(h, ref, at) == [heap |-> [h EXCEPT ![at] = h[ref]], ref |-> at]

\* this.reverseSection(newRoute, i, j): the array at ref is changed in place.
reverseSectionInPlace(h, ref, start, end) ==
    [h EXCEPT ![ref] = reverseSection(h[ref], start, end)]

\* The allocated arrays of h that are still referred to: bestRoute's.
Reachable(h, ref) == [a \in 1..2 |-> IF a = ref THEN h[a] ELSE <<>>]

\* ---------------------------------------------------------------- state
VARIABLES
    cities,             \* this.cities
    distanceMatrix,     \* this.distanceMatrix
    pc,                 \* where the running call stands
    calls,              \* the private methods the running solve has invoked, in order
    result,             \* the TSPResult solve returned (pc = "done")
    thrown,             \* an error left the call
    start,              \* solve: the loop variable of the multi-start loop
    currentBest,        \* solve: currentBest
    solveBestDistance,  \* solve: bestDistance
    distance,           \* solve: distance; the value calculateRouteDistance returned
    route,              \* the route passed to twoOptImprovement / calculateRouteDistance
    bestRoute,          \* twoOptImprovement: bestRoute
    bestDistance,       \* twoOptImprovement: bestDistance
    improved,           \* twoOptImprovement: improved
    i,                  \* twoOptImprovement: i
    j,                  \* twoOptImprovement: j
    tableRows,          \* dynamicProgramming: the rows of dp and parent, 0 before allocation
    error,              \* the kind of the error that left the call, "none" without one
    startCity,          \* nearestNeighbor: startCity
    visited,            \* nearestNeighbor: visited
    currentCity,        \* nearestNeighbor: currentCity
    request,            \* the tool call being handled: request.params
    response,           \* what the handler did and what the tool call came to
    returned,           \* the results solve has returned on this instance so far
    dp,                 \* dynamicProgramming: dp, <<>> before the fill
    parent,             \* dynamicProgramming: parent
    minCost,            \* dynamicProgramming: minCost
    lastCity,           \* dynamicProgramming: lastCity
    mask,               \* dynamicProgramming: mask of the path reconstruction
    curr,               \* dynamicProgramming: curr
    arrays,             \* twoOptImprovement: the contents of the arrays it allocated
    bestRouteRef        \* twoOptImprovement: the array bestRoute refers to, 0 the argument

vars ==
    <<cities, distanceMatrix, pc, calls, result, thrown, start, currentBest,
      solveBestDistance, distance, route, bestRoute, bestDistance, improved, i, j,
      tableRows, error, startCity, visited, currentCity, request, response, returned,
      dp, parent, minCost, lastCity, mask, curr, arrays, bestRouteRef>>

solveVars == <<start, currentBest, solveBestDistance, distance>>

twoOptVars == <<bestRoute, bestDistance, improved, i, j, arrays, bestRouteRef>>

walkVars == <<dp, parent, minCost, lastCity, mask, curr>>

dpVars == <<tableRows, error, walkVars>>

nnVars == <<startCity, visited, currentCity>>

toolVars == <<request, response>>

historyVars == <<returned>>

otherVars == <<dpVars, nnVars, toolVars, historyVars>>

n == NumCities(distanceMatrix)

\* Mutant: the distance is the one 2-opt last held, not recomputed.
MakeResultStale(m, r) == [route |-> r, totalDistance |-> bestDistance]

\* The returned TSPResult (its cities field is this.cities).
MakeResult(m, r) == [route |-> r, totalDistance |-> calculateRouteDistance(m, r)]

NoResult == [route |-> <<>>, totalDistance |-> 0]

\* No tool call has arrived.
NoRequest ==
    [name |-> "",
     args |-> [defined |-> FALSE,
               cities |-> [type |-> "undefined", items |-> <<>>],
               route |-> [type |-> "undefined", items |-> <<>>]]]

\* What a tool call comes to: the error that leaves the handler (thrown)
\* and the dispatcher (code), the text of its message and the city index
\* it names, the number of cities a TSPSolver was constructed with (-1:
\* none was), whether solve ran, whether a route distance was computed;
\* the algorithm the response text names and the one solve used ("none":
\* no text names one, solve did not run), the tool name an error message
\* of the dispatcher carries.
Outcome(th, code, message, index, constructed, solved, computed, res, dist) ==
    [thrown |-> th, code |-> code, message |-> message, index |-> index,
     constructed |-> constructed, solved |-> solved, computed |-> computed,
     result |-> res, distance |-> dist, algorithm |-> "none", used |-> "none", tool |-> ""]

NoResponse == Outcome("none", "none", "none", -1, -1, FALSE, FALSE, NoResult, 0)

\* new TSPSolver(cs), nothing called yet.
Constructed(cs) ==
    /\ cities = WithIds(cs)
    /\ distanceMatrix = calculateDistanceMatrix(cities)
    /\ calls = <<>>
    /\ result = NoResult
    /\ thrown = FALSE
    /\ start = 0
    /\ currentBest = <<>>
    /\ solveBestDistance = Infinity
    /\ distance = 0
    /\ bestRoute = <<>>
    /\ bestDistance = 0
    /\ improved = FALSE
    /\ i = 0
    /\ j = 0
    /\ tableRows = 0
    /\ error = "none"
    /\ startCity = 0
    /\ visited = {}
    /\ currentCity = 0
    /\ request = NoRequest
    /\ response = NoResponse
    /\ returned = {}
    /\ dp = <<>>
    /\ parent = <<>>
    /\ minCost = Infinity
    /\ lastCity = -1
    /\ mask = 0
    /\ curr = -1
    /\ arrays = NoArrays
    /\ bestRouteRef = 0

Init ==
    /\ \E cs \in CityLists : Constructed(cs)
    /\ route = <<>>
    /\ pc = "idle"

\* solve(), n < 2
SolveTrivial ==
    /\ pc = "idle"
    /\ IsTrivial(n)
    /\ result' = [route |-> <<0>>, totalDistance |-> 0]
    /\ pc' = "done"
    /\ UNCHANGED <<cities, distanceMatrix, calls, thrown, route>>
    /\ UNCHANGED solveVars
    /\ UNCHANGED twoOptVars
    /\ UNCHANGED otherVars

\* solve(), 2 <= n <= 10
SolveExact ==
    /\ pc = "idle"
    /\ ~IsTrivial(n)
    /\ UsesExact(n)
    /\ LET b == ExactBranch(distanceMatrix)
       IN  /\ calls' = b.calls
           /\ thrown' = b.thrown
           /\ IF b.thrown
              THEN /\ pc' = "thrown"
                   /\ UNCHANGED result
              ELSE /\ pc' = "done"
                   /\ result' = MakeResult(distanceMatrix, b.bestRoute)
    /\ UNCHANGED <<cities, distanceMatrix, route>>
    /\ UNCHANGED solveVars
    /\ UNCHANGED twoOptVars
    /\ UNCHANGED otherVars

\* solve(), n > 10: let currentBest = [], bestDistance = Infinity, start = 0
SolveHeuristic ==
    /\ pc = "idle"
    /\ ~IsTrivial(n)
    /\ ~UsesExact(n)
    /\ currentBest' = <<>>
    /\ solveBestDistance' = Infinity
    /\ start' = 0
    /\ pc' = "trial"
    /\ UNCHANGED <<cities, distanceMatrix, calls, result, thrown, distance, route>>
    /\ UNCHANGED twoOptVars
    /\ UNCHANGED otherVars

\* start < Math.min(n, 5): route = nearestNeighbor(start), then call 2-opt
TrialStart ==
    /\ pc = "trial"
    /\ start < NumStarts(n)
    /\ route' = nearestNeighbor(distanceMatrix, start)
    /\ calls' = calls \o <<<<"nearestNeighbor", start>>, <<"twoOptImprovement", start>>>>
    /\ pc' = "twoOptEnter"
    /\ UNCHANGED <<cities, distanceMatrix, result, thrown>>
    /\ UNCHANGED solveVars
    /\ UNCHANGED twoOptVars
    /\ UNCHANGED otherVars

\* twoOptImprovement(route): improved = true, bestRoute = [...route], bestDistance
TwoOptEnter ==
    /\ pc = "twoOptEnter"
    /\ LET s == TwoOptStart(distanceMatrix, route)
           c == Spread(Heap(route, NoArrays), 0, 1)
       IN  /\ bestRoute' = s.bestRoute
           /\ bestDistance' = s.bestDistance
           /\ improved' = s.improved
           /\ route' = c.heap[0]
           /\ arrays' = Reachable(c.heap, c.ref)
           /\ bestRouteRef' = c.ref
    /\ pc' = "while"
    /\ UNCHANGED <<cities, distanceMatrix, calls, result, thrown, i, j>>
    /\ UNCHANGED solveVars
    /\ UNCHANGED otherVars

\* while (improved) { improved = false; i = 1 ... }
TwoOptWhileHead ==
    /\ pc = "while"
    /\ IF improved
       THEN /\ improved' = FALSE
            /\ i' = 1
            /\ pc' = "fori"
       ELSE /\ pc' = "twoOptReturn"
            /\ UNCHANGED <<improved, i>>
    /\ UNCHANGED <<cities, distanceMatrix, calls, result, thrown, route, bestRoute,
                   bestDistance, j, arrays, bestRouteRef>>
    /\ UNCHANGED solveVars
    /\ UNCHANGED otherVars

\* for (...; i < n - 2; ...) { j = i + 1 ... }, n = route.length
TwoOptForI ==
    /\ pc = "fori"
    /\ IF i < Len(route) - 2
       THEN /\ j' = i + 1
            /\ pc' = "forj"
       ELSE /\ pc' = "while"
            /\ UNCHANGED j
    /\ UNCHANGED <<cities, distanceMatrix, calls, result, thrown, route, bestRoute,
                   bestDistance, improved, i, arrays, bestRouteRef>>
    /\ UNCHANGED solveVars
    /\ UNCHANGED otherVars

\* for (...; j < n; j++) { body }, and i++ when the inner loop ends.  The
\* body copies the array of bestRoute, reverses the copy in place, and
\* bestRoute = newRoute makes bestRoute refer to the copy.
TwoOptForJ ==
    /\ pc = "forj"
    /\ IF j < Len(route)
       THEN LET s == TwoOptCandidate(distanceMatrix,
                                     [bestRoute |-> bestRoute, bestDistance |-> bestDistance,
                                      improved |-> improved], i, j)
                c == Spread(Heap(route, arrays), bestRouteRef, FreeAddress(bestRouteRef))
                h == IF j - i = 1 THEN Heap(route, arrays)
                                  ELSE reverseSectionInPlace(c.heap, c.ref, i, j)
                ref == IF s.bestRoute # bestRoute THEN c.ref ELSE bestRouteRef
            IN  /\ bestRoute' = s.bestRoute
                /\ bestDistance' = s.bestDistance
                /\ improved' = s.improved
                /\ route' = h[0]
                /\ arrays' = Reachable(h, ref)
                /\ bestRouteRef' = ref
                /\ j' = j + 1
                /\ UNCHANGED <<pc, i>>
       ELSE /\ i' = i + 1
            /\ pc' = "fori"
            /\ UNCHANGED <<bestRoute, bestDistance, improved, j, route, arrays, bestRouteRef>>
    /\ UNCHANGED <<cities, distanceMatrix, calls, result, thrown>>
    /\ UNCHANGED solveVars
    /\ UNCHANGED otherVars

\* route = twoOptImprovement(route); distance = ...; if (distance <
\* bestDistance) { ... }; start++
TrialEnd ==
    /\ pc = "twoOptReturn"
    /\ route' = bestRoute
    /\ distance' = calculateRouteDistance(distanceMatrix, bestRoute)
    /\ IF KeepsBest(distance', solveBestDistance)
       THEN /\ solveBestDistance' = distance'
            /\ currentBest' = bestRoute
       ELSE UNCHANGED <<solveBestDistance, currentBest>>
    /\ start' = start + 1
    /\ pc' = "trial"
    /\ UNCHANGED <<cities, distanceMatrix, calls, result, thrown>>
    /\ UNCHANGED twoOptVars
    /\ UNCHANGED otherVars

\* the loop is over: bestRoute = currentBest; return
SolveReturn ==
    /\ pc = "trial"
    /\ ~(start < NumStarts(n))
    /\ result' = MakeResult(distanceMatrix, currentBest)
    /\ pc' = "done"
    /\ UNCHANGED <<cities, distanceMatrix, calls, thrown, route>>
    /\ UNCHANGED solveVars
    /\ UNCHANGED twoOptVars
    /\ UNCHANGED otherVars

Next ==
    \/ SolveTrivial
    \/ SolveExact
    \/ SolveHeuristic
    \/ TrialStart
    \/ TwoOptEnter
    \/ TwoOptWhileHead
    \/ TwoOptForI
    \/ TwoOptForJ
    \/ TrialEnd
    \/ SolveReturn

Spec == Init /\ [][Next]_vars

\* ------------------------------------------------ twoOptImprovement alone
\* twoOptImprovement called on any permutation of the cities.
Perms(k) == {s \in [1..k -> 0..(k - 1)] : \A a, b \in 1..k : a # b => s[a] # s[b]}

SmallCityLists == {cs \in CityLists : Cardinality(DOMAIN cs) <= MaxPermN}

InitTwoOpt ==
    /\ \E cs \in SmallCityLists : Constructed(cs)
    /\ route \in Perms(n)
    /\ pc = "twoOptEnter"

NextTwoOpt ==
    \/ TwoOptEnter
    \/ TwoOptWhileHead
    \/ TwoOptForI
    \/ TwoOptForJ

SpecTwoOpt == InitTwoOpt /\ [][NextTwoOpt]_vars

\* The method runs to its end: nothing suspends it.  The routes are the
\* permutations that begin with city 0, on the first MaxFairLists city
\* lists of each size.
FairCityLists == {Walk(k, off, 1) : k \in 0..MaxPermN, off \in 0..(MaxFairLists - 1)}

FairRoutes(k) == {r \in Perms(k) : k = 0 \/ r[1] = 0}

InitTwoOptFair ==
    /\ \E cs \in FairCityLists : Constructed(cs)
    /\ route \in FairRoutes(n)
    /\ pc = "twoOptEnter"

SpecTwoOptFair == InitTwoOptFair /\ [][NextTwoOpt]_vars /\ WF_vars(NextTwoOpt)

\* ------------------------------------------- calculateRouteDistance alone
\* The public method called with any route of valid indices.
Routes(k) == UNION {[1..len -> 0..(k - 1)] : len \in 0..MaxRouteLen}

InitDistance ==
    /\ \E cs \in SmallCityLists : Constructed(cs)
    /\ route = <<>>
    /\ pc = "idle"

CallDistance ==
    /\ pc = "idle"
    /\ \E r \in Routes(n) :
          /\ route' = r
          /\ distance' = calculateRouteDistance(distanceMatrix, r)
    /\ pc' = "distance"
    /\ UNCHANGED <<cities, distanceMatrix, calls, result, thrown, start, currentBest,
                   solveBestDistance>>
    /\ UNCHANGED twoOptVars
    /\ UNCHANGED otherVars

NextDistance == CallDistance

SpecDistance == InitDistance /\ [][NextDistance]_vars

\* ------------------------------------------------- one call after another
\* Mutant: a call leaves the distances doubled.
FieldsAfterCallScaled(cs, m) ==
    [cities |-> cs,
     distanceMatrix |-> [a \in DOMAIN m |-> [b \in DOMAIN m |-> 2 * m[a][b]]]]

\* cities and distanceMatrix are assigned in the constructor and nowhere
\* else: a call leaves them as they were.
FieldsAfterCall(cs, m) == [cities |-> cs, distanceMatrix |-> m]

CallCityLists == SmallCityLists \cup {Walk(ExactThreshold + 1, 0, 1)}

InitCalls ==
    /\ \E cs \in CallCityLists : Constructed(cs)
    /\ route = <<>>
    /\ pc = "idle"

\* solve or calculateRouteDistance is over: its locals are gone, the
\* instance keeps its fields and can be called again.
CallReturn ==
    /\ pc \in {"done", "distance", "thrown"}
    /\ LET f == FieldsAfterCall(cities, distanceMatrix)
       IN  /\ cities' = f.cities
           /\ distanceMatrix' = f.distanceMatrix
    /\ returned' = IF pc = "done" THEN returned \cup {result} ELSE returned
    /\ pc' = "idle"
    /\ calls' = <<>>
    /\ result' = NoResult
    /\ thrown' = FALSE
    /\ start' = 0
    /\ currentBest' = <<>>
    /\ solveBestDistance' = Infinity
    /\ distance' = 0
    /\ route' = <<>>
    /\ bestRoute' = <<>>
    /\ bestDistance' = 0
    /\ improved' = FALSE
    /\ i' = 0
    /\ j' = 0
    /\ arrays' = NoArrays
    /\ bestRouteRef' = 0
    /\ UNCHANGED <<dpVars, nnVars, toolVars>>

NextCalls ==
    \/ Next
    \/ CallDistance
    \/ CallReturn

SpecCalls == InitCalls /\ [][NextCalls]_vars

\* ---------------------------------------------------------------- index.ts
\* solve() in one piece, as a handler calls it.
RECURSIVE MultiStart(_, _, _, _)
MultiStart(m, st, best, bestDist) ==
    IF ~(st < NumStarts(NumCities(m)))
    THEN best
    ELSE LET r == twoOptImprovement(m, nearestNeighbor(m, st))
             d == calculateRouteDistance(m, r)
         IN  IF KeepsBest(d, bestDist)
             THEN MultiStart(m, st + 1, r, d)
             ELSE MultiStart(m, st + 1, best, bestDist)

solve(m) ==
    IF IsTrivial(NumCities(m))
    THEN [route |-> <<0>>, totalDistance |-> 0]
    ELSE IF UsesExact(NumCities(m))
         THEN MakeResult(m, ExactBranch(m).bestRoute)
         ELSE MakeResult(m, MultiStart(m, 0, <<>>, Infinity))

\* The JavaScript values of a request, as far as the handlers look at
\* them: numbers (an integer, an integer plus one half, NaN), strings,
\* undefined.
Num(k) == [type |-> "number", value |-> k, half |-> FALSE, nan |-> FALSE]

Half(k) == [type |-> "number", value |-> k, half |-> TRUE, nan |-> FALSE]

NaN == [type |-> "number", value |-> 0, half |-> FALSE, nan |-> TRUE]

Str == [type |-> "string", value |-> 0, half |-> FALSE, nan |-> FALSE]

Undefined == [type |-> "undefined", value |-> 0, half |-> FALSE, nan |-> FALSE]

\* An element of args.cities: null, or an object with x, y and name.
Null == [null |-> TRUE, x |-> Undefined, y |-> Undefined, name |-> Undefined]

Obj(x, y, name) == [null |-> FALSE, x |-> x, y |-> y, name |-> name]

\* args.cities and args.route: an array, something that is no array, or
\* undefined.
Arr(items) == [type |-> "array", items |-> items]

NotArr == [type |-> "string", items |-> <<>>]

Missing == [type |-> "undefined", items |-> <<>>]

\* !args.x || !Array.isArray(args.x)
NotAnArray(a) == a.type # "array"

\* What the callback of args.cities.map does on one element: reading
\* city.x of null throws a TypeError; typeof city.x !== 'number' ||
\* typeof city.y !== 'number'; with names, typeof city.name !== 'string'.
ElementFault(e, withNames) ==
    IF e.null
    THEN "TypeError"
    ELSE IF e.x.type # "number" \/ e.y.type # "number"
         THEN "CityNotNumeric"
         ELSE IF withNames /\ e.name.type # "string"
              THEN "CityNoName"
              ELSE "none"

\* The position (1-based) of the first element at which map throws, 0 if
\* it throws at none.
FirstFault(items, withNames) ==
    IF \E p \in 1..Len(items) : ElementFault(items[p], withNames) # "none"
    THEN CHOOSE p \in 1..Len(items) :
            /\ ElementFault(items[p], withNames) # "none"
            /\ \A q \in 1..(p - 1) : ElementFault(items[q], withNames) = "none"
    ELSE 0

\* return { x: city.x, y: city.y }
MapCities(items) ==
    [k \in 0..(Len(items) - 1) |-> [x |-> items[k + 1].x.value, y |-> items[k + 1].y.value]]

\* cityIndex < 0 || cityIndex >= cities.length: both comparisons are false
\* for NaN, and k + 0.5 compares as k does against integers bounds.
RouteEntryRejected(v, k) == ~v.nan /\ (v.value < 0 \/ v.value >= k)

\* The position of the first route entry the validation loop throws at.
FirstRejected(items, k) ==
    IF \E p \in 1..Len(items) : RouteEntryRejected(items[p], k)
    THEN CHOOSE p \in 1..Len(items) :
            /\ RouteEntryRejected(items[p], k)
            /\ \A q \in 1..(p - 1) : ~RouteEntryRejected(items[q], k)
    ELSE 0

\* v is the index of a row of a k x k matrix, of an element of k cities.
IsIndex(v, k) == v.type = "number" /\ ~v.nan /\ ~v.half /\ v.value \in 0..(k - 1)

RouteOf(items) == [p \in 1..Len(items) |-> items[p].value]

Reject(message, index) ==
    Outcome("McpError", "InvalidParams", message, index, -1, FALSE, FALSE, NoResult, 0)

\* A TypeError leaves the handler, after a TSPSolver was constructed with
\* k cities (-1: before any was).
TypeErr(k) == Outcome("TypeError", "none", "TypeError", -1, k, FALSE, FALSE, NoResult, 0)

\* The checks every handler begins with: args.cities is read (a TypeError
\* when args is undefined), it must be an array, and map throws at the
\* first element its callback rejects. "none" when all pass.
CheckCities(args, withNames) ==
    IF ~args.defined
    THEN TypeErr(-1)
    ELSE IF NotAnArray(args.cities)
         THEN Reject("Cities must be provided as an array", -1)
         ELSE LET items == args.cities.items
                  p == FirstFault(items, withNames)
                  fault == ElementFault(items[p], withNames)
              IN  IF p = 0
                  THEN NoResponse
                  ELSE IF fault = "TypeError"
                       THEN TypeErr(-1)
                       ELSE IF fault = "CityNotNumeric"
                            THEN Reject("City at index must have numeric x and y coordinates",
                                        p - 1)
                            ELSE Reject("City at index must have a name", p - 1)

\* if (cities.length < 2)
TooFewCities(items) == Len(items) < 2

\* The algorithm that produced the route solve() returns.
AlgorithmUsed(m) ==
    IF IsTrivial(NumCities(m))
    THEN "none"
    ELSE IF UsesExact(NumCities(m)) /\ ExactBranch(m).calls = <<<<"dynamicProgramming", 0>>>>
         THEN "Dynamic Programming"
         ELSE "Nearest Neighbor + 2-opt"

\* Mutant: the text goes by the ceiling of dynamicProgramming.
AlgorithmNamedByCeiling(k) ==
    IF k <= CapacityCeiling THEN "Dynamic Programming" ELSE "Nearest Neighbor + 2-opt"

\* cities.length <= 10 ? 'Dynamic Programming (optimal)' :
\* 'Nearest Neighbor + 2-opt (heuristic)'
AlgorithmNamed(k) == IF k <= 10 THEN "Dynamic Programming" ELSE "Nearest Neighbor + 2-opt"

\* const solver = new TSPSolver(cities); const result = solver.solve();
\* and the response text, which names an algorithm or does not.
Solved(items, text, named) ==
    [Outcome("none", "none", text, -1, Len(items), TRUE, FALSE,
             solve(calculateDistanceMatrix(WithIds(MapCities(items)))), 0)
        EXCEPT !.algorithm = IF named THEN AlgorithmNamed(Len(items)) ELSE "none",
               !.used = AlgorithmUsed(calculateDistanceMatrix(WithIds(MapCities(items))))]

SolveHandler(args, withNames, text, named) ==
    LET c == CheckCities(args, withNames)
    IN  IF c # NoResponse
        THEN c
        ELSE IF TooFewCities(args.cities.items)
             THEN Reject("At least 2 cities are required to solve TSP", -1)
             ELSE Solved(args.cities.items, text, named)

handleSolveTSP(args) == SolveHandler(args, FALSE, "TSP Solution:", TRUE)

handleSolveTSPWithNames(args) ==
    SolveHandler(args, TRUE, "TSP Solution with Named Cities:", TRUE)

\* The image is generated, written and opened inside try; the catch
\* builds the other text, which names no algorithm.
handleSolveAndVisualizeTSP(args, imageOk) ==
    SolveHandler(args, FALSE,
                 IF imageOk
                 THEN "TSP Solution with Visualization Complete!"
                 ELSE "TSP Solution Found (Visualization failed)",
                 imageOk)

\* The checks of the two handlers that take a route: cities an array,
\* route an array, the cities mapped, the route entries in range.
CheckRoute(args) ==
    IF ~args.defined
    THEN TypeErr(-1)
    ELSE IF NotAnArray(args.cities)
         THEN Reject("Cities must be provided as an array", -1)
         ELSE IF NotAnArray(args.route)
              THEN Reject("Route must be provided as an array of city indices", -1)
              ELSE LET c == CheckCities(args, FALSE)
                   IN  IF c # NoResponse
                       THEN c
                       ELSE IF FirstRejected(args.route.items, Len(args.cities.items)) # 0
                            THEN Reject("Invalid city index in route", -1)
                            ELSE NoResponse

\* distanceMatrix[from][to], cities[route[i]].x: a TypeError as soon as
\* an entry of the route is no index.
RouteReadThrows(items, k) == \E p \in 1..Len(items) : ~IsIndex(items[p], k)

handleCalculateRouteDistance(args) ==
    LET c == CheckRoute(args)
        items == args.cities.items
        k == Len(items)
        m == calculateDistanceMatrix(WithIds(MapCities(items)))
    IN  IF c # NoResponse
        THEN c
        ELSE IF RouteReadThrows(args.route.items, k)
             THEN TypeErr(k)
             ELSE Outcome("none", "none", "Route Distance Calculation:", -1, k, FALSE, TRUE,
                          NoResult, calculateRouteDistance(m, RouteOf(args.route.items)))

\* No TSPSolver here: the distance is summed in the handler. Both texts
\* read cities[route[0]].name, a TypeError for the empty route, the
\* second time outside any try.
handleVisualizeTSPRoute(args, imageOk) ==
    LET c == CheckRoute(args)
        items == args.cities.items
        k == Len(items)
        m == calculateDistanceMatrix(WithIds(MapCities(items)))
    IN  IF c # NoResponse
        THEN c
        ELSE IF RouteReadThrows(args.route.items, k)
             THEN TypeErr(-1)
             ELSE IF Len(args.route.items) = 0
                  THEN Outcome("TypeError", "none", "TypeError", -1, -1, FALSE, TRUE,
                               NoResult, 0)
                  ELSE Outcome("none", "none",
                               IF imageOk
                               THEN "TSP Route Visualization Complete!"
                               ELSE "TSP Route Data (Visualization failed)",
                               -1, -1, FALSE, TRUE, NoResult,
                               calculateRouteDistance(m, RouteOf(args.route.items)))

ToolNames ==
    {"solve_tsp", "solve_tsp_with_names", "calculate_route_distance", "visualize_tsp_route",
     "solve_and_visualize_tsp"}

\* switch (name) { case ...: return await this.handle...(args); default:
\* throw new McpError(ErrorCode.MethodNotFound, `Unknown tool: ${name}`) }
Dispatch(name, args, imageOk) ==
    CASE name = "solve_tsp" -> handleSolveTSP(args)
      [] name = "solve_tsp_with_names" -> handleSolveTSPWithNames(args)
      [] name = "calculate_route_distance" -> handleCalculateRouteDistance(args)
      [] name = "visualize_tsp_route" -> handleVisualizeTSPRoute(args, imageOk)
      [] name = "solve_and_visualize_tsp" -> handleSolveAndVisualizeTSP(args, imageOk)
      [] OTHER -> [Outcome("McpError", "MethodNotFound", "Unknown tool", -1, -1, FALSE,
                           FALSE, NoResult, 0) EXCEPT !.tool = name]

\* Mutant: the catch wraps whatever was thrown, an McpError too.
CaughtWrapsAll(name, out) ==
    IF out.thrown = "none"
    THEN out
    ELSE [out EXCEPT !.code = "InternalError", !.message = "Error executing tool",
                     !.tool = name]

\* catch (error) { if (error instanceof McpError) throw error; throw new
\* McpError(ErrorCode.InternalError, `Error executing tool ${name}: ${error}`) }
Caught(name, out) ==
    IF out.thrown \in {"none", "McpError"}
    THEN out
    ELSE [out EXCEPT !.code = "InternalError", !.message = "Error executing tool",
                     !.tool = name]

\* The CallTool request handler: the switch on the tool name inside try,
\* and the catch that passes an McpError on and wraps anything else.
CallTool(name, args, imageOk) == Caught(name, Dispatch(name, args, imageOk))

\* The requests of the model: arrays of up to MaxToolCities elements, each
\* a city with or without a name, an object whose x is a string, or null;
\* one list of ExactThreshold + 1 cities; routes of up to MaxToolRoute
\* entries.
ToolElements ==
    {Obj(Num(0), Num(0), Str), Obj(Num(3), Num(4), Str), Obj(Num(0), Num(0), Undefined),
     Obj(Str, Num(0), Str), Null}

ElevenCities ==
    Arr([k \in 1..(ExactThreshold + 1) |->
            Obj(Num(Point(k - 1).x), Num(Point(k - 1).y), Str)])

CitiesArgs ==
    {Missing, NotArr, ElevenCities}
        \cup {Arr(a) : a \in UNION {[1..k -> ToolElements] : k \in 0..MaxToolCities}}

RouteEntries == {Num(-1), Num(0), Num(1), Num(2), Half(0), NaN}

RouteArgs ==
    {Missing, NotArr}
        \cup {Arr(r) : r \in UNION {[1..k -> RouteEntries] : k \in 0..MaxToolRoute}}

SolveRequests ==
    {NoRequest.args} \cup {[defined |-> TRUE, cities |-> c, route |-> Missing] : c \in CitiesArgs}

RouteRequests ==
    {NoRequest.args}
        \cup {[defined |-> TRUE, cities |-> c, route |-> r] :
                c \in CitiesArgs \ {ElevenCities}, r \in RouteArgs}

InitTools ==
    /\ Constructed(FromSeq(<<>>))
    /\ route = <<>>
    /\ pc = "toolIdle"

\* One tool call from the request to the response or the error; the
\* TSPSolver a handler constructs shows in cities and distanceMatrix.
Handled(name, args, out) ==
    /\ request' = [name |-> name, args |-> args]
    /\ response' = out
    /\ IF out.constructed >= 0
       THEN /\ cities' = WithIds(MapCities(args.cities.items))
            /\ distanceMatrix' = calculateDistanceMatrix(WithIds(MapCities(args.cities.items)))
       ELSE UNCHANGED <<cities, distanceMatrix>>
    /\ result' = out.result
    /\ distance' = out.distance
    /\ pc' = "responded"
    /\ UNCHANGED <<calls, thrown, start, currentBest, solveBestDistance, route>>
    /\ UNCHANGED <<twoOptVars, dpVars, nnVars, historyVars>>

CallSolveTSP ==
    /\ pc = "toolIdle"
    /\ \E args \in SolveRequests : Handled("solve_tsp", args, CallTool("solve_tsp", args, TRUE))

CallSolveTSPWithNames ==
    /\ pc = "toolIdle"
    /\ \E args \in SolveRequests :
           Handled("solve_tsp_with_names", args, CallTool("solve_tsp_with_names", args, TRUE))

CallCalculateRouteDistance ==
    /\ pc = "toolIdle"
    /\ \E args \in RouteRequests :
           Handled("calculate_route_distance", args,
                   CallTool("calculate_route_distance", args, TRUE))

CallVisualizeTSPRoute ==
    /\ pc = "toolIdle"
    /\ \E args \in RouteRequests, imageOk \in BOOLEAN :
           Handled("visualize_tsp_route", args, CallTool("visualize_tsp_route", args, imageOk))

CallSolveAndVisualizeTSP ==
    /\ pc = "toolIdle"
    /\ \E args \in SolveRequests, imageOk \in BOOLEAN :
           Handled("solve_and_visualize_tsp", args,
                   CallTool("solve_and_visualize_tsp", args, imageOk))

CallUnknownTool ==
    /\ pc = "toolIdle"
    /\ \E args \in {NoRequest.args, [defined |-> TRUE, cities |-> Missing, route |-> Missing]} :
           Handled("unknown_tool", args, CallTool("unknown_tool", args, TRUE))

\* The response is sent; the server waits for the next request.
ToolReturn ==
    /\ pc = "responded"
    /\ pc' = "toolIdle"
    /\ request' = NoRequest
    /\ response' = NoResponse
    /\ cities' = WithIds(FromSeq(<<>>))
    /\ distanceMatrix' = calculateDistanceMatrix(WithIds(FromSeq(<<>>)))
    /\ result' = NoResult
    /\ distance' = 0
    /\ UNCHANGED <<calls, thrown, start, currentBest, solveBestDistance, route>>
    /\ UNCHANGED <<twoOptVars, dpVars, nnVars, historyVars>>

NextTools ==
    \/ CallSolveTSP
    \/ CallSolveTSPWithNames
    \/ CallCalculateRouteDistance
    \/ CallVisualizeTSPRoute
    \/ CallSolveAndVisualizeTSP
    \/ CallUnknownTool
    \/ ToolReturn

SpecTools == InitTools /\ [][NextTools]_vars

\* ------------------------------------------------ dynamicProgramming alone
\* The private method entered with any number of cities, in its three
\* parts: the capacity test, the allocation of the tables, the rest.
DPSizes == {k \in 0..MaxDPN : k <= MaxExactN \/ k >= CapacityCeiling - 1}

DPCityLists ==
    {Walk(k, off, 2 * s - 1) : k \in DPSizes, off \in 0..(NumPoints - 1), s \in 1..MaxStride}

InitDP ==
    /\ \E cs \in DPCityLists : Constructed(cs)
    /\ route = <<>>
    /\ pc = "dpEntry"

\* if (n > 15) { throw new Error('Too many cities ...') }
DPGuard ==
    /\ pc = "dpEntry"
    /\ IF dynamicProgrammingOverCapacity(n)
       THEN /\ pc' = "thrown"
            /\ thrown' = TRUE
            /\ error' = "over-capacity"
       ELSE /\ pc' = "dpGuarded"
            /\ UNCHANGED <<thrown, error>>
    /\ UNCHANGED <<cities, distanceMatrix, calls, result, route, tableRows>>
    /\ UNCHANGED <<solveVars, twoOptVars, nnVars, toolVars, historyVars, walkVars>>

\* const dp = Array(1 << n)...; const parent = Array(1 << n)...
DPAllocate ==
    /\ pc = "dpGuarded"
    /\ tableRows' = Pow2(n)
    /\ pc' = "dpAllocated"
    /\ UNCHANGED <<cities, distanceMatrix, calls, result, thrown, route, error>>
    /\ UNCHANGED <<solveVars, twoOptVars, nnVars, toolVars, historyVars, walkVars>>

\* dp[1][0] = 0; the fill, the closing edge, the walk back; return route.
\* The tables are computed up to MaxExactN cities.
DPRun ==
    /\ pc = "dpAllocated"
    /\ n <= MaxExactN
    /\ IF n = 0
       THEN /\ pc' = "thrown"
            /\ thrown' = TRUE
            /\ error' = "TypeError"
            /\ UNCHANGED route
       ELSE /\ pc' = "dpReturn"
            /\ route' = dynamicProgramming(distanceMatrix)
            /\ UNCHANGED <<thrown, error>>
    /\ UNCHANGED <<cities, distanceMatrix, calls, result, tableRows>>
    /\ UNCHANGED <<solveVars, twoOptVars, nnVars, toolVars, historyVars, walkVars>>

NextDP ==
    \/ DPGuard
    \/ DPAllocate
    \/ DPRun

SpecDP == InitDP /\ [][NextDP]_vars

\* ------------------------------------------ dynamicProgramming step by step
\* The same method with its tables in the state: the fill, the closing
\* loop, and the path reconstruction one turn of its loop a step.
StepCityLists == {cs \in DPCityLists : Cardinality(DOMAIN cs) <= MaxExactN}

InitDPSteps ==
    /\ \E cs \in StepCityLists : Constructed(cs)
    /\ route = <<>>
    /\ pc = "dpEntry"

\* Mutant: the predecessor is read after the city was taken out of mask.
DPWalkPrevAfterXor(T, k, c) == T.parent[XorBit(k, c)][c]

\* const prev = parent[mask][curr]
DPWalkPrev(T, k, c) == T.parent[k][c]

\* dp[1][0] = 0; for (mask) for (u) for (v) relax.  For n = 0 the tables
\* have the single row 0 and dp[1][0] = 0 throws a TypeError.
DPFillTables ==
    /\ pc = "dpAllocated"
    /\ IF n = 0
       THEN /\ pc' = "thrown"
            /\ thrown' = TRUE
            /\ error' = "TypeError"
            /\ UNCHANGED <<dp, parent>>
       ELSE /\ pc' = "dpFilled"
            /\ dp' = DPTables(distanceMatrix, n).dp
            /\ parent' = DPTables(distanceMatrix, n).parent
            /\ UNCHANGED <<thrown, error>>
    /\ UNCHANGED <<cities, distanceMatrix, calls, result, route, tableRows>>
    /\ UNCHANGED <<minCost, lastCity, mask, curr>>
    /\ UNCHANGED <<solveVars, twoOptVars, nnVars, toolVars, historyVars>>

\* let minCost = Infinity, lastCity = -1; for (let i = 1; i < n; i++) ...;
\* const route = []; let mask = finalMask; let curr = lastCity
DPCloseTour ==
    /\ pc = "dpFilled"
    /\ LET best == DPClose(distanceMatrix, n, [dp |-> dp, parent |-> parent], 1,
                           [minCost |-> Infinity, lastCity |-> -1])
       IN  /\ minCost' = best.minCost
           /\ lastCity' = best.lastCity
           /\ curr' = best.lastCity
    /\ mask' = Pow2(n) - 1
    /\ route' = <<>>
    /\ pc' = "dpWalk"
    /\ UNCHANGED <<cities, distanceMatrix, calls, result, thrown, tableRows, error, dp, parent>>
    /\ UNCHANGED <<solveVars, twoOptVars, nnVars, toolVars, historyVars>>

\* One turn of while (curr !== -1): route.push(curr); prev = parent[mask][curr];
\* mask ^= (1 << curr); curr = prev
DPWalkStep ==
    /\ pc = "dpWalk"
    /\ curr # -1
    /\ route' = Append(route, curr)
    /\ curr' = DPWalkPrev([dp |-> dp, parent |-> parent], mask, curr)
    /\ mask' = XorBit(mask, curr)
    /\ UNCHANGED <<cities, distanceMatrix, pc, calls, result, thrown, tableRows, error, dp,
                   parent, minCost, lastCity>>
    /\ UNCHANGED <<solveVars, twoOptVars, nnVars, toolVars, historyVars>>

\* curr === -1: route.reverse(); return route
DPWalkEnd ==
    /\ pc = "dpWalk"
    /\ curr = -1
    /\ route' = Reverse(route)
    /\ pc' = "dpReturn"
    /\ UNCHANGED <<cities, distanceMatrix, calls, result, thrown>>
    /\ UNCHANGED <<solveVars, twoOptVars, dpVars, nnVars, toolVars, historyVars>>

NextDPSteps ==
    \/ DPGuard
    \/ DPAllocate
    \/ DPFillTables
    \/ DPCloseTour
    \/ DPWalkStep
    \/ DPWalkEnd

SpecDPSteps == InitDPSteps /\ [][NextDPSteps]_vars

\* --------------------------------------------------- nearestNeighbor alone
\* The private method entered with any start index, one loop turn a step.
NNCityLists == {cs \in CityLists : Cardinality(DOMAIN cs) >= 1}

InitNN ==
    /\ \E cs \in NNCityLists : Constructed(cs)
    /\ route = <<>>
    /\ pc = "nnEntry"

\* const visited = new Set(); const route = [startCity]; let currentCity =
\* startCity; visited.add(startCity)
NNEnter ==
    /\ pc = "nnEntry"
    /\ \E s \in 0..(n - 1) :
          /\ startCity' = s
          /\ route' = <<s>>
          /\ currentCity' = s
          /\ visited' = {s}
    /\ pc' = "nnWhile"
    /\ UNCHANGED <<cities, distanceMatrix, calls, result, thrown>>
    /\ UNCHANGED <<solveVars, twoOptVars, dpVars, toolVars, historyVars>>

\* One turn of while (route.length < n): the scan, route.push(nearestCity),
\* visited.add(nearestCity), currentCity = nearestCity
NNStep ==
    /\ pc = "nnWhile"
    /\ NearestContinues(route, n)
    /\ LET nearestCity ==
               NearestScan(distanceMatrix, n, visited, currentCity, 0,
                           [nearestCity |-> -1, nearestDistance |-> Infinity]).nearestCity
       IN  /\ route' = Append(route, nearestCity)
           /\ visited' = visited \cup {nearestCity}
           /\ currentCity' = nearestCity
    /\ UNCHANGED <<cities, distanceMatrix, pc, calls, result, thrown, startCity>>
    /\ UNCHANGED <<solveVars, twoOptVars, dpVars, toolVars, historyVars>>

\* The loop test fails: return route
NNReturn ==
    /\ pc = "nnWhile"
    /\ ~NearestContinues(route, n)
    /\ pc' = "nnReturn"
    /\ UNCHANGED <<cities, distanceMatrix, calls, result, thrown, route>>
    /\ UNCHANGED <<solveVars, twoOptVars, dpVars, nnVars, toolVars, historyVars>>

NextNN ==
    \/ NNEnter
    \/ NNStep
    \/ NNReturn

SpecNN == InitNN /\ [][NextNN]_vars

\* The method runs to its end: nothing suspends it.
SpecNNFair == SpecNN /\ WF_vars(NextNN)

\* ================================================================ claims
Range(f) == {f[x] : x \in DOMAIN f}

\* r lists every index of [0, k) exactly once.
IsPermutation(r, k) ==
    /\ Len(r) = k
    /\ \A c \in 0..(k - 1) : Cardinality({p \in 1..Len(r) : r[p] = c}) = 1

\* The cyclic length of r, edge by edge: the sum over the positions P of
\* m[r[p]][r[(p + 1) mod k]].
RECURSIVE SumEdges(_, _, _)
SumEdges(m, r, P) ==
    IF P = {}
    THEN 0
    ELSE LET p == CHOOSE x \in P : TRUE
         IN  m[r[p + 1]][r[((p + 1) % Len(r)) + 1]] + SumEdges(m, r, P \ {p})

EdgeSum(m, r) == SumEdges(m, r, 0..(Len(r) - 1))

SetMin(S) == CHOOSE x \in S : \A y \in S : x <= y

\* The shortest way to go from cur through every city of rest and back to
\* first, over all orders of rest.
RECURSIVE ShortestFrom(_, _, _, _)
ShortestFrom(m, cur, rest, first) ==
    IF rest = {}
    THEN m[cur][first]
    ELSE SetMin({m[cur][v] + ShortestFrom(m, v, rest \ {v}, first) : v \in rest})

\* The minimum cyclic distance over all permutations of the cities.
BruteForceMin(m) ==
    SetMin({ShortestFrom(m, f, DOMAIN m \ {f}, f) : f \in DOMAIN m})

\* C1: for n >= 1 the route solve returns is a permutation of [0, n).
C1_RouteIsPermutation == (pc = "done" /\ n >= 1) => IsPermutation(result.route, n)

C1_Witness ==
    /\ pc = "done"
    /\ n > ExactThreshold
    /\ IsPermutation(result.route, n)
    /\ result.route # [p \in 1..n |-> p - 1]

\* C2: for 2 <= n <= 10 the returned route is as short as the shortest of
\* all permutations; the three collinear cities give 4 and the unit square
\* the perimeter, every edge a side.
C2_ExactIsOptimal ==
    (pc = "done" /\ n >= 2 /\ n <= ExactThreshold) =>
        /\ EdgeSum(distanceMatrix, result.route) = BruteForceMin(distanceMatrix)
        /\ cities = WithIds(Collinear3) => result.totalDistance = 4 * Scale
        /\ cities = WithIds(UnitSquare) =>
              \A p \in 1..4 :
                  distanceMatrix[result.route[p]][result.route[(p % 4) + 1]] = Scale

C2_Witness ==
    /\ pc = "done"
    /\ n = MaxExactN
    /\ EdgeSum(distanceMatrix, result.route) = BruteForceMin(distanceMatrix)
    /\ EdgeSum(distanceMatrix, [p \in 1..n |-> p - 1]) > BruteForceMin(distanceMatrix)

\* C3: for n >= 2 the returned totalDistance is calculateRouteDistance of the
\* returned route.
C3_DistanceRecomputed ==
    (pc = "done" /\ n >= 2) =>
        result.totalDistance = calculateRouteDistance(distanceMatrix, result.route)

\* The best trial was not the last one: the distance 2-opt last held is not
\* the distance of the returned route.
C3_Witness ==
    /\ pc = "done"
    /\ n > ExactThreshold
    /\ result.totalDistance = calculateRouteDistance(distanceMatrix, result.route)
    /\ bestDistance # result.totalDistance

\* C4: for a route of k >= 1 valid indices calculateRouteDistance is the sum
\* over the positions p of matrix[route[p]][route[(p + 1) mod k]]; one entry
\* gives 0.
C4_RouteDistanceIsCyclicSum ==
    (pc = "distance" /\ Len(route) >= 1) =>
        /\ distance = EdgeSum(distanceMatrix, route)
        /\ Len(route) = 1 => distance = 0

C4_Witness ==
    /\ pc = "distance"
    /\ Len(route) = MaxRouteLen
    /\ distance = EdgeSum(distanceMatrix, route)
    /\ distanceMatrix[route[Len(route)]][route[1]] > 0

\* C5: while twoOptImprovement runs bestDistance never increases, and the
\* route it returns is no longer than the route it was given.
C5_TwoOptNeverIncreases ==
    /\ [][pc # "twoOptEnter" => bestDistance' <= bestDistance]_vars
    /\ [](pc = "twoOptReturn" =>
            EdgeSum(distanceMatrix, bestRoute) <= EdgeSum(distanceMatrix, route))

C5_Witness ==
    /\ pc = "twoOptReturn"
    /\ EdgeSum(distanceMatrix, bestRoute) < EdgeSum(distanceMatrix, route)

\* Removing the tour edges that leave positions a and b (0-based, a < b) and
\* reconnecting, which reverses positions a + 1 .. b, changes the length by
\* NewEdges - OldEdges when the matrix is symmetric.
OldEdges(m, r, a, b) == m[r[a + 1]][r[a + 2]] + m[r[b + 1]][r[((b + 1) % Len(r)) + 1]]

NewEdges(m, r, a, b) == m[r[a + 1]][r[b + 1]] + m[r[a + 2]][r[((b + 1) % Len(r)) + 1]]

\* The two edges share no city.
NonAdjacentEdges(r, a, b) == a + 1 < b /\ ~(a = 0 /\ b = Len(r) - 1)

IsTwoOptLocalOptimum(m, r) ==
    \A a, b \in 0..(Len(r) - 1) :
        NonAdjacentEdges(r, a, b) => ~(NewEdges(m, r, a, b) < OldEdges(m, r, a, b))

\* C6: the route twoOptImprovement returns is a 2-opt local optimum: no two
\* non-adjacent tour edges can be exchanged for a strictly shorter tour.
C6_TwoOptLocalOptimum ==
    pc = "twoOptReturn" => IsTwoOptLocalOptimum(distanceMatrix, bestRoute)

\* One trial of the multi-start loop, computed in one piece.
TrialRoute(m, k) == twoOptImprovement(m, nearestNeighbor(m, k))

\* The calls of the trials 0 .. k - 1, in order.
TrialCalls(k) ==
    [p \in 1..(2 * k) |->
        IF p % 2 = 1
        THEN <<"nearestNeighbor", (p - 1) \div 2>>
        ELSE <<"twoOptImprovement", (p - 2) \div 2>>]

\* The lowest start index whose trial route has the smallest cyclic distance.
EarliestBest(m, k) ==
    LET d == [t \in 0..(k - 1) |-> EdgeSum(m, TrialRoute(m, t))]
    IN  SetMin({t \in 0..(k - 1) : \A u \in 0..(k - 1) : d[t] <= d[u]})

\* C7: for n > 10 solve runs the trials 0, 1, 2, 3, 4 in that order, each
\* nearestNeighbor(start) then twoOptImprovement, and returns the route of
\* the trial with the smallest cyclic distance, the earliest one on a tie.
C7_MultiStartKeepsEarliestBest ==
    (pc = "done" /\ n > ExactThreshold) =>
        /\ calls = TrialCalls(5)
        /\ result.route = TrialRoute(distanceMatrix, EarliestBest(distanceMatrix, 5))

\* A later trial ties with the returned one on a different route.
C7_Witness ==
    /\ pc = "done"
    /\ n > ExactThreshold
    /\ calls = TrialCalls(5)
    /\ \E t \in 0..4 :
          /\ t > EarliestBest(distanceMatrix, 5)
          /\ EdgeSum(distanceMatrix, TrialRoute(distanceMatrix, t))
                = EdgeSum(distanceMatrix, result.route)
          /\ TrialRoute(distanceMatrix, t) # result.route

\* C8 as stated: on 12 cities solve invokes dynamicProgramming, which
\* declines, and the fallback returns a permutation.
C8_TwelveCitiesFallBack ==
    (pc = "done" /\ n = 12) =>
        /\ <<"dynamicProgramming", 0>> \in Range(calls)
        /\ <<"catch", 0>> \in Range(calls)
        /\ IsPermutation(result.route, n)

\* C8: on 12 cities solve does not invoke dynamicProgramming, which would
\* not decline 12 cities, and nothing is caught; the multi-start trials
\* return a permutation of the cities.
C8_TwelveCitiesMultiStart ==
    (pc = "done" /\ n = 12) =>
        /\ <<"dynamicProgramming", 0>> \notin Range(calls)
        /\ <<"catch", 0>> \notin Range(calls)
        /\ ~dynamicProgrammingThrows(n)
        /\ Range(calls) = Range(TrialCalls(5))
        /\ IsPermutation(result.route, n)

C8_Witness ==
    /\ pc = "done"
    /\ n = 12
    /\ Len(calls) = 10
    /\ IsPermutation(result.route, 12)

\* C9: for n = 0 and n = 1 solve returns route [0] and totalDistance 0 and
\* calls none of dynamicProgramming, nearestNeighbor, twoOptImprovement.
C9_TrivialInstance ==
    (pc = "done" /\ n < 2) =>
        /\ result = [route |-> <<0>>, totalDistance |-> 0]
        /\ calls = <<>>

C9_Witness ==
    /\ pc = "done"
    /\ n = 0
    /\ result.route = <<0>>
    /\ calls = <<>>

\* C10: solve never throws, whatever the number of cities, and whenever it
\* catches the error of dynamicProgramming it returns the route of
\* nearestNeighbor(0) followed by twoOptImprovement.
C10_SolveNeverThrows ==
    /\ ~thrown
    /\ pc # "thrown"
    /\ (pc = "done" /\ <<"catch", 0>> \in Range(calls)) =>
          result.route = TrialRoute(distanceMatrix, 0)
    /\ (pc = "done" /\ ~IsTrivial(n) /\ UsesExact(n)) =>
          calls = <<<<"dynamicProgramming", 0>>>>

C10_Witness ==
    /\ pc = "done"
    /\ ~thrown
    /\ ~IsTrivial(n)
    /\ UsesExact(n)
    /\ calls = <<<<"dynamicProgramming", 0>>>>
    /\ result # NoResult

\* C11: dynamicProgramming throws the capacity error exactly when n > 15,
\* never for n <= 15, and it throws before the tables are allocated: for
\* n > 15 no table exists.
C11_OverCapacityBeforeTables ==
    /\ error = "over-capacity" => (n > 15 /\ pc = "thrown")
    /\ (n > 15 /\ pc # "dpEntry") => (error = "over-capacity" /\ pc = "thrown")
    /\ n > 15 => tableRows = 0
    /\ n <= 15 => error # "over-capacity"
    /\ pc \in {"dpAllocated", "dpReturn"} => (n <= 15 /\ tableRows = Pow2(n))

C11_Witness ==
    /\ pc = "thrown"
    /\ error = "over-capacity"
    /\ n = 16
    /\ tableRows = 0

\* C12: for n >= 1 and any start index nearestNeighbor terminates, appends
\* one city a turn and exactly n - 1 in all, and returns a permutation of
\* [0, n) that begins with the start index.
C12_NearestNeighborPermutation ==
    /\ <>(pc = "nnReturn")
    /\ [](pc \in {"nnWhile", "nnReturn"} =>
            /\ route[1] = startCity
            /\ Len(route) <= n
            /\ Cardinality(Range(route)) = Len(route))
    /\ [][pc = "nnWhile" /\ pc' = "nnWhile" =>
            /\ Len(route') = Len(route) + 1
            /\ SubSeq(route', 1, Len(route)) = route]_vars
    /\ [](pc = "nnReturn" => (IsPermutation(route, n) /\ Len(route) - 1 = n - 1))

C12_Witness ==
    /\ pc = "nnReturn"
    /\ n > 1
    /\ startCity = n - 1
    /\ IsPermutation(route, n)
    /\ route[1] = n - 1

\* C13: the city nearestNeighbor appends is unvisited and no unvisited city
\* is nearer to the last city of the partial route; of the unvisited
\* cities at that distance it is the one with the lowest index.
C13_AppendsNearestLowestIndex ==
    [][(pc = "nnWhile" /\ pc' = "nnWhile") =>
          LET last == route[Len(route)]
              c == route'[Len(route')]
              unvisited == (0..(n - 1)) \ Range(route)
          IN  /\ c \in unvisited
              /\ \A u \in unvisited :
                    /\ distanceMatrix[last][c] <= distanceMatrix[last][u]
                    /\ distanceMatrix[last][u] = distanceMatrix[last][c] => c <= u]_vars

\* The city appended last had an unvisited rival at the same distance.
C13_Witness ==
    /\ pc = "nnWhile"
    /\ Len(route) >= 2
    /\ \E u \in (0..(n - 1)) \ Range(route) :
          /\ u > route[Len(route)]
          /\ distanceMatrix[route[Len(route) - 1]][u]
                = distanceMatrix[route[Len(route) - 1]][route[Len(route)]]

\* C14: in every state of an instance, whatever solve and
\* calculateRouteDistance calls came before, the distance matrix is n x n
\* for the n cities, zero on the diagonal, symmetric and nowhere negative,
\* and no call changes it.
C14_MatrixSymmetricZeroDiagonal ==
    /\ [](LET idx == 0..(Cardinality(DOMAIN cities) - 1)
          IN  /\ DOMAIN distanceMatrix = idx
              /\ \A a \in idx :
                    /\ DOMAIN distanceMatrix[a] = idx
                    /\ distanceMatrix[a][a] = 0
                    /\ \A b \in idx :
                          /\ distanceMatrix[a][b] = distanceMatrix[b][a]
                          /\ distanceMatrix[a][b] >= 0)
    /\ [][distanceMatrix' = distanceMatrix]_vars

C14_Witness ==
    /\ pc = "distance"
    /\ returned # {}
    /\ \E a, b \in DOMAIN distanceMatrix : distanceMatrix[a][b] > 0

C16_ExactRouteStartsAtZero ==
    (pc = "dpReturn" /\ n >= 2 /\ n <= 15) =>
        /\ Len(route) > 0
        /\ route[1] = 0
        /\ n <= 10 =>
              MakeResult(distanceMatrix, ExactBranch(distanceMatrix).bestRoute).route[1] = 0

C16_Witness ==
    /\ pc = "dpReturn"
    /\ n >= 4
    /\ IsPermutation(route, n)
    /\ route[1] = 0
    /\ route[n] # n - 1

\* The request carries a cities array.
HasCitiesArray == request.args.defined /\ request.args.cities.type = "array"

\* C17: solve_tsp, solve_tsp_with_names and solve_and_visualize_tsp answer
\* every request with fewer than 2 cities with an InvalidParams error, and
\* solve is not called for it.
C17_FewerThanTwoCitiesInvalidParams ==
    (/\ pc = "responded"
     /\ request.name \in {"solve_tsp", "solve_tsp_with_names", "solve_and_visualize_tsp"}
     /\ HasCitiesArray
     /\ Len(request.args.cities.items) < 2) =>
        /\ response.code = "InvalidParams"
        /\ ~response.solved

\* C18: calculate_route_distance and visualize_tsp_route answer every
\* route with an entry that is no city index (an integer in [0, n)) with
\* an InvalidParams error, before a solver is constructed or a distance
\* is computed.
C18_BadRouteEntryInvalidParams ==
    (/\ pc = "responded"
     /\ request.name \in {"calculate_route_distance", "visualize_tsp_route"}
     /\ HasCitiesArray
     /\ FirstFault(request.args.cities.items, FALSE) = 0
     /\ request.args.route.type = "array"
     /\ \E p \in 1..Len(request.args.route.items) :
           ~IsIndex(request.args.route.items[p], Len(request.args.cities.items))) =>
        /\ response.code = "InvalidParams"
        /\ response.constructed = -1
        /\ ~response.computed

\* C19: no handler constructs a TSPSolver or computes a route distance
\* when the cities array is empty: the request is rejected.
C19_EmptyCitiesRejected ==
    (/\ pc = "responded"
     /\ request.name \in ToolNames
     /\ HasCitiesArray
     /\ Len(request.args.cities.items) = 0) =>
        /\ response.code # "none"
        /\ response.constructed = -1
        /\ ~response.computed

\* The element has no numeric x or no numeric y.
LacksCoordinates(e) == e.null \/ e.x.type # "number" \/ e.y.type # "number"

\* C20: in every handler a cities array with an element that has no
\* numeric x and y is answered with an InvalidParams error that names the
\* index of the first such element, and no TSPSolver is constructed.
C20_BadCityNamesFirstIndex ==
    (/\ pc = "responded"
     /\ request.name \in ToolNames
     /\ HasCitiesArray
     /\ \E p \in 1..Len(request.args.cities.items) :
           LacksCoordinates(request.args.cities.items[p])) =>
        /\ response.code = "InvalidParams"
        /\ response.constructed = -1
        /\ \E p \in 1..Len(request.args.cities.items) :
              /\ LacksCoordinates(request.args.cities.items[p])
              /\ \A q \in 1..(p - 1) : ~LacksCoordinates(request.args.cities.items[q])
              /\ response.index = p - 1

\* The cities of the bitmask k among count cities.
MaskSet(k, count) == {c \in 0..(count - 1) : InMask(k, c)}

\* The tables do not change once they are filled.
TablesKept ==
    [][(pc = "dpFilled" \/ pc = "dpWalk") =>
          /\ dp' = dp
          /\ parent' = parent]_vars

\* C21: after the fill (n >= 2), for every mask with city 0 and every city
\* v # 0 of the mask, dp[mask][v] is the length of the shortest path from
\* city 0 through exactly the cities of the mask to v; dp[1][0] is the base
\* case 0 and every other entry is still infinite.
C21_TablesHoldShortestPaths ==
    /\ [](pc = "dpFilled" /\ n >= 2 =>
            \A k \in 0..(Pow2(n) - 1), v \in 0..(n - 1) :
                LET S == MaskSet(k, n)
                IN  IF 0 \in S /\ v \in S /\ v # 0
                    THEN dp[k][v] = ShortestFrom(distanceMatrix, 0, S \ {0, v}, v)
                    ELSE IF k = 1 /\ v = 0
                         THEN dp[k][v] = 0
                         ELSE dp[k][v] = Infinity)
    /\ TablesKept

\* An entry was relaxed more than once: its predecessor is not the first
\* city of the mask that reached it.
C21_Witness ==
    /\ pc = "dpFilled"
    /\ n = MaxExactN
    /\ \E k \in 0..(Pow2(n) - 1), v, u \in 1..(n - 1) :
          /\ InMask(k, v)
          /\ InMask(k, u)
          /\ InMask(k, 0)
          /\ u # v
          /\ u < parent[k][v]
          /\ dp[k][v] < dp[k - Pow2(v)][u] + distanceMatrix[u][v]

\* C22: in dynamicProgramming (n >= 2) the walk over the predecessors
\* starts at the arg-min last city, pushes a city of the remaining mask
\* that it has not pushed before, is at city 0 exactly when the remaining
\* mask is {0} and stops there and nowhere earlier, so that it pushes n
\* distinct cities; the reversed route has the cyclic distance min over
\* i # 0 of dp[fullMask][i] + dist(i, 0).
C22_WalkReturnsArgMinTour ==
    n >= 2 =>
        /\ pc = "dpWalk" =>
              /\ Cardinality(Range(route)) = Len(route)
              /\ MaskSet(mask, n) = (0..(n - 1)) \ Range(route)
              /\ curr # -1 => (InMask(mask, curr) /\ curr \notin Range(route))
              /\ (curr = 0) <=> (mask = 1)
              /\ curr = 0 => parent[mask][curr] = -1
              /\ curr \notin {0, -1} => parent[mask][curr] # -1
              /\ curr = -1 => (Len(route) = n /\ route[n] = 0)
              /\ route = <<>> => curr = lastCity
        /\ pc = "dpReturn" =>
              /\ IsPermutation(route, n)
              /\ minCost = SetMin({Plus(dp[Pow2(n) - 1][c], distanceMatrix[c][0]) :
                                     c \in 1..(n - 1)})
              /\ EdgeSum(distanceMatrix, route) = minCost
              /\ route = dynamicProgramming(distanceMatrix)

\* The arg-min last city is not the last index, and the identity order is
\* longer than the returned tour.
C22_Witness ==
    /\ pc = "dpReturn"
    /\ n = MaxExactN
    /\ route[n] = lastCity
    /\ lastCity # n - 1
    /\ EdgeSum(distanceMatrix, route) = minCost
    /\ EdgeSum(distanceMatrix, [p \in 1..n |-> p - 1]) > minCost

\* What the first pass of the while loop leaves of the input route.
AfterFirstPass(m, r) == TwoOptOuter(m, [TwoOptStart(m, r) EXCEPT !.improved = FALSE], 1)

\* C23: twoOptImprovement terminates on every permutation: every accepted
\* move strictly decreases bestDistance, a pass asks for another one only
\* if it accepted a move, and after a pass without one the loop exits.
C23_TwoOptTerminates ==
    /\ <>(pc = "twoOptReturn")
    /\ [][(pc # "twoOptEnter" /\ bestRoute' # bestRoute) =>
            /\ bestDistance' < bestDistance
            /\ improved']_vars
    /\ [][(pc # "twoOptEnter" /\ improved' /\ ~improved) => bestDistance' < bestDistance]_vars
    /\ [][(pc = "while" /\ ~improved) => pc' = "twoOptReturn"]_vars

\* The second pass accepted a move too.
C23_Witness ==
    /\ pc = "twoOptReturn"
    /\ n = MaxPermN
    /\ bestDistance < AfterFirstPass(distanceMatrix, route).bestDistance
    /\ AfterFirstPass(distanceMatrix, route).bestDistance
          < calculateRouteDistance(distanceMatrix, route)

\* The position pairs the loops of twoOptImprovement try on k cities.
ScanPairs(k) == {pr \in (1..(k - 3)) \X (1..(k - 1)) : pr[1] + 2 <= pr[2]}

\* Reversing the positions pr[1]..pr[2] of r gives a strictly shorter tour.
ScanMoveImproves(m, r, pr) ==
    EdgeSum(m, reverseSection(r, pr[1], pr[2])) < EdgeSum(m, r)

\* C24: when twoOptImprovement returns, no pair (i, j) of its scan set
\* (1 <= i <= n - 3, i + 2 <= j <= n - 1) gives a strictly shorter tour by
\* reversing the positions i..j of the returned route.
C24_NoImprovingScanMove ==
    pc = "twoOptReturn" =>
        \A pr \in ScanPairs(Len(bestRoute)) : ~ScanMoveImproves(distanceMatrix, bestRoute, pr)

\* A move accepted late in the first pass left a pair of the scan set
\* improving at the end of that pass.
C24_Witness ==
    /\ pc = "twoOptReturn"
    /\ \E pr \in ScanPairs(Len(route)) :
          ScanMoveImproves(distanceMatrix, AfterFirstPass(distanceMatrix, route).bestRoute, pr)
    /\ \A pr \in ScanPairs(Len(bestRoute)) : ~ScanMoveImproves(distanceMatrix, bestRoute, pr)

\* C25: twoOptImprovement never modifies the array passed to it: every
\* step of the method leaves its elements as they were, bestRoute never
\* refers to it, and the array bestRoute refers to holds the route the
\* method has as its best.
C25_InputArrayUntouched ==
    /\ [][(pc = "twoOptEnter" \/ pc = "while" \/ pc = "fori" \/ pc = "forj") =>
            route' = route]_vars
    /\ [](pc \in {"while", "fori", "forj", "twoOptReturn"} =>
            /\ bestRouteRef # 0
            /\ Heap(route, arrays)[bestRouteRef] = bestRoute)

\* Moves were accepted: the returned array differs from the argument.
C25_Witness ==
    /\ pc = "twoOptReturn"
    /\ n = MaxPermN
    /\ bestRouteRef = 2
    /\ arrays[2] # route
    /\ IsPermutation(route, n)

\* C26: on an empty city collection the route solve returns is a
\* permutation of [0, 0): it holds no index that refers to no city.
C26_EmptyInstanceValidRoute ==
    (pc = "done" /\ n = 0) =>
        /\ IsPermutation(result.route, 0)
        /\ \A p \in 1..Len(result.route) : result.route[p] \in DOMAIN cities

\* C27: the fallback of the exact branch never runs: nothing is caught,
\* dynamicProgramming is invoked only with 2 <= n <= 10 and throws for no
\* such n (it signals over-capacity only for n > 15), and nearestNeighbor
\* from city 0 is called only as the first multi-start trial.
C27_FallbackNeverRuns ==
    /\ <<"catch", 0>> \notin Range(calls)
    /\ <<"dynamicProgramming", 0>> \in Range(calls) => (n >= 2 /\ n <= 10)
    /\ \A k \in 0..MaxDPN :
          /\ dynamicProgrammingOverCapacity(k) => k > 15
          /\ (~IsTrivial(k) /\ UsesExact(k)) => ~dynamicProgrammingThrows(k)
    /\ <<"nearestNeighbor", 0>> \in Range(calls) => n > 10
    /\ (pc = "done" /\ n >= 2 /\ n <= 10) =>
          result.route = dynamicProgramming(distanceMatrix)

C27_Witness ==
    /\ pc = "done"
    /\ n = MaxExactN
    /\ Range(calls) = {<<"dynamicProgramming", 0>>}
    /\ result.route = dynamicProgramming(distanceMatrix)

\* a and b hold the same elements, each as often.
SameElements(a, b) ==
    /\ Len(a) = Len(b)
    /\ \A c \in Range(a) \cup Range(b) :
          Cardinality({p \in 1..Len(a) : a[p] = c}) = Cardinality({p \in 1..Len(b) : b[p] = c})

\* C28: at every point of twoOptImprovement bestRoute is a rearrangement
\* of the input route with the same element at position 0, and
\* bestDistance is the cyclic distance of bestRoute; the route a
\* multi-start trial of solve gets back begins with its start index.
C28_BestRouteKeepsFirst ==
    /\ pc \in {"while", "fori", "forj", "twoOptReturn"} =>
          /\ SameElements(bestRoute, route)
          /\ Len(route) >= 1 => bestRoute[1] = route[1]
          /\ bestDistance = EdgeSum(distanceMatrix, bestRoute)
    /\ (pc = "twoOptReturn" /\ calls # <<>>) => bestRoute[1] = start

\* A trial from a later start whose route 2-opt changed.
C28_Witness ==
    /\ pc = "twoOptReturn"
    /\ calls # <<>>
    /\ start >= 1
    /\ bestRoute # route
    /\ bestRoute[1] = start
    /\ bestDistance < EdgeSum(distanceMatrix, route)

\* C29: whenever the response text of solve_tsp, solve_tsp_with_names or
\* solve_and_visualize_tsp names an algorithm for an accepted city list
\* (n >= 2), it is 'Dynamic Programming' exactly for n <= 10 and it is the
\* algorithm solve used for the returned route.
C29_NamedAlgorithmIsUsed ==
    (/\ pc = "responded"
     /\ request.name \in {"solve_tsp", "solve_tsp_with_names", "solve_and_visualize_tsp"}
     /\ response.solved) =>
        /\ n >= 2
        /\ response.result = solve(distanceMatrix)
        /\ response.used = IF n <= 10 THEN "Dynamic Programming" ELSE "Nearest Neighbor + 2-opt"
        /\ response.algorithm # "none" => response.algorithm = response.used
        /\ response.algorithm = "none" =>
              response.message = "TSP Solution Found (Visualization failed)"

\* Eleven cities: the text names the heuristic, which solve used.
C29_Witness ==
    /\ pc = "responded"
    /\ request.name = "solve_tsp_with_names"
    /\ response.solved
    /\ n = ExactThreshold + 1
    /\ response.algorithm = "Nearest Neighbor + 2-opt"
    /\ response.used = "Nearest Neighbor + 2-opt"

\* What the switch of the dispatcher comes to for the request, before
\* the catch.  Whether the image can be generated makes no difference to
\* what a handler throws: that failure is caught inside the handler.
RawOutcome == Dispatch(request.name, request.args, TRUE)

\* C30: the dispatcher answers an unknown tool name with McpError
\* MethodNotFound, passes on unchanged an McpError a handler throws,
\* turns any other error of a handler into McpError InternalError with a
\* message that names the tool, and lets no other kind of error out.
C30_DispatcherErrorMapping ==
    pc = "responded" =>
        LET raw == RawOutcome
        IN  /\ request.name \notin ToolNames =>
                  (response.thrown = "McpError" /\ response.code = "MethodNotFound")
            /\ raw.thrown = "McpError" => response = raw
            /\ raw.thrown = "none" => (response.thrown = "none" /\ response.code = "none")
            /\ raw.thrown \notin {"none", "McpError"} =>
                  /\ response.code = "InternalError"
                  /\ response.message = "Error executing tool"
                  /\ response.tool = request.name
                  /\ response.thrown = raw.thrown
            /\ response.code \in {"none", "InvalidParams", "MethodNotFound", "InternalError"}
            /\ response.thrown # "none" <=> response.code # "none"

\* A TypeError of a handler left the dispatcher as InternalError.
C30_Witness ==
    /\ pc = "responded"
    /\ request.name = "visualize_tsp_route"
    /\ response.thrown = "TypeError"
    /\ response.code = "InternalError"
    /\ response.tool = "visualize_tsp_route"

====
